---- MODULE Spec2Model ----
(***************************************************************************)
(* Model of src/server.js: an Express application that receives PayPal     *)
(* webhooks, normalises each into an order record kept in one in-memory    *)
(* Map, and serves that Map through read-only routes.                      *)
(*                                                                         *)
(* Requests arrive (Arrive), stay in flight while Express reads their body *)
(* and are then dispatched, one at a time and in any order, to the route   *)
(* handler, which Node runs to completion.                                 *)
(***************************************************************************)
EXTENDS Integers, Sequences, FiniteSets, TLC

VARIABLES orders, pending, now, arrived, last, latest

vars == <<orders, pending, now, arrived, last, latest>>

\* Bounds of the model: the requests received under Spec and under SpecDeep,
\* the requests in flight at once, and the last millisecond of the clock.
MaxRequests == 2
MaxDeep == 3
MaxInFlight == 2
MaxClock == 1

(***************************************************************************)
(* JavaScript values, tagged with their type.  v is the value's text.      *)
(***************************************************************************)
Undefined == [t |-> "undefined", v |-> ""]
Str(s) == [t |-> "string", v |-> s]
Num(s) == [t |-> "number", v |-> s]
Obj(s) == [t |-> "object", v |-> s]
Fn(s) == [t |-> "function", v |-> s]

\* A property JSON.stringify leaves out of its output.
Absent == [t |-> "absent", v |-> ""]

\* A parsed JSON object whose own "toString" is not callable: converting it
\* to a string throws a TypeError.
Unprintable == Obj("{\"toString\":1}")

\* ToBoolean, as used by if (...), || and ?: in the handlers.
Truthy(x) ==
    CASE x.t = "undefined" -> FALSE
      [] x.t = "string" -> x.v # ""
      [] x.t = "number" -> x.v # "0"
      [] OTHER -> TRUE

\* Whether ToString(x) (template literal, property key) returns.
CanStringify(x) == x # Unprintable

\* ToString(x) where it returns.
JSToString(x) ==
    CASE x.t = "undefined" -> "undefined"
      [] x.t = "object" -> "[object Object]"
      [] x.t = "function" -> "function " \o x.v \o "() { [native code] }"
      [] OTHER -> x.v

\* JSON.stringify of a property value, as res.json applies it.
ToJSON(x) == IF x.t \in {"undefined", "function"} THEN Absent ELSE x

(***************************************************************************)
(* Webhook payloads: req.body after express.json() parsed it.              *)
(***************************************************************************)
\* resource.amount: an object with value and currency_code.
AmountOK == Obj("{\"value\":\"10.00\",\"currency_code\":\"USD\"}")
AmountUnprintable == Obj("{\"value\":{\"toString\":1},\"currency_code\":\"USD\"}")

\* resource.amount?.value
AmountValue(a) ==
    IF a = AmountOK THEN Str("10.00")
    ELSE IF a = AmountUnprintable THEN Unprintable
    ELSE Undefined

\* resource.amount?.currency_code
AmountCurrency(a) ==
    IF a \in {AmountOK, AmountUnprintable} THEN Str("USD") ELSE Undefined

\* The object {} that stands in for a missing resource: every read of a
\* property gives undefined.
EmptyResource ==
    [order_id |-> Undefined, capture_id |-> Undefined, id |-> Undefined,
     amount |-> Undefined, payer |-> Undefined, items |-> Undefined]

Res(oid, cap, rid) ==
    [EmptyResource EXCEPT !.order_id = oid, !.capture_id = cap, !.id = rid]

Body(et, hasRes, res, ct) ==
    [event_type |-> et, has_resource |-> hasRes, resource |-> res,
     create_time |-> ct]

\* The body {}.
EmptyBody == Body(Undefined, FALSE, EmptyResource, Undefined)

KnownEventTypes ==
    {"PAYMENT.CAPTURE.COMPLETED", "PAYMENT.CAPTURE.PENDING",
     "PAYMENT.CAPTURE.DENIED", "CHECKOUT.ORDER.APPROVED",
     "CHECKOUT.ORDER.COMPLETED"}

EventTypeValues ==
    {Str(e) : e \in KnownEventTypes}
        \cup {Str("BILLING.PLAN.CREATED"), Str("constructor"), Undefined,
              Unprintable}

\* Bodies that differ in event_type only.
EventBodies ==
    {Body(et, TRUE, Res(Undefined, Undefined, Str("C")), Undefined) :
        et \in EventTypeValues}

\* Bodies that differ in where an order id can be found.
IdBodies ==
    {Body(Str("PAYMENT.CAPTURE.PENDING"), TRUE, r, Undefined) :
        r \in {Res(Str("A"), Str("B"), Str("C")),
               Res(Undefined, Str("B"), Str("C")),
               Res(Str(""), Str("B"), Str("C")),
               Res(Undefined, Undefined, Num("7")),
               Res(Undefined, Undefined, Num("0")),
               EmptyResource}}
        \cup {Body(Str("PAYMENT.CAPTURE.PENDING"), FALSE, EmptyResource,
                   Undefined)}

\* Bodies that carry the pass-through fields.
FieldBodies ==
    {Body(Str("CHECKOUT.ORDER.APPROVED"), TRUE,
          [Res(Undefined, Undefined, Str("C")) EXCEPT
              !.amount = a, !.payer = Obj("{\"payer_id\":\"P\"}"),
              !.items = Obj("[{\"name\":\"panel\"}]")],
          Str("2024-01-01T00:00:00Z")) :
        a \in {AmountOK, AmountUnprintable}}

Bodies == EventBodies \cup IdBodies \cup FieldBodies \cup {EmptyBody}

(***************************************************************************)
(* Requests.                                                               *)
(***************************************************************************)
Request(route, raw, body, param) ==
    [route |-> route, raw |-> raw, body |-> body, param |-> param]

\* raw: "json" a body express.json() parses; "invalid" a JSON content type
\* with text that is not JSON; "none" no JSON body at all.
WebhookRequests ==
    {Request("POST /api/webhook/paypal", "json", b, "") : b \in Bodies}
        \cup {Request("POST /api/webhook/paypal", raw, EmptyBody, "") :
                raw \in {"invalid", "none"}}

\* req.params.orderId is always a string.
OrderIdParams == {"C", "7", "unknown_0"}

QueryRequests ==
    {Request("GET /api/orders/:orderId", "none", EmptyBody, x) :
        x \in OrderIdParams}
        \cup {Request(route, "none", EmptyBody, "") :
                route \in {"GET /api/orders", "GET /api/health",
                           "GET /api/verify-credentials", "GET /"}}

Requests == WebhookRequests \cup QueryRequests

\* The requests of SpecDeep: fewer kinds, longer runs.
DeepBodies ==
    {Body(Str("PAYMENT.CAPTURE.PENDING"), TRUE,
          Res(Undefined, Undefined, Str("C")), Undefined),
     Body(Str("PAYMENT.CAPTURE.PENDING"), TRUE,
          Res(Str("A"), Str("B"), Str("C")), Undefined),
     Body(Str("PAYMENT.CAPTURE.PENDING"), TRUE,
          Res(Undefined, Undefined, Num("7")), Undefined),
     Body(Str("PAYMENT.CAPTURE.PENDING"), FALSE, EmptyResource, Undefined)}
        \cup FieldBodies

DeepRequests ==
    {Request("POST /api/webhook/paypal", "json", b, "") : b \in DeepBodies}
        \cup {Request("GET /api/orders/:orderId", "none", EmptyBody, x) :
                x \in {"C", "7"}}
        \cup {Request("GET /api/orders", "none", EmptyBody, "")}

(***************************************************************************)
(* const orders = new Map(): the entries in insertion order.               *)
(***************************************************************************)
MapHas(tbl, k) == \E i \in 1..Len(tbl) : tbl[i].key = k

\* orders.get(k) where the key is held.
MapGet(tbl, k) == tbl[CHOOSE i \in 1..Len(tbl) : tbl[i].key = k].value

\* A set that keeps the old value of every property the new record leaves
\* undefined.
MapSetMerging(tbl, k, val) ==
    IF MapHas(tbl, k)
    THEN [i \in 1..Len(tbl) |->
            IF tbl[i].key = k
            THEN [key |-> k,
                  value |-> [f \in DOMAIN val |->
                               IF val[f] = Undefined THEN tbl[i].value[f]
                               ELSE val[f]]]
            ELSE tbl[i]]
    ELSE Append(tbl, [key |-> k, value |-> val])

\* A set that adds an entry even when the key is held.
MapSetAppending(tbl, k, val) == Append(tbl, [key |-> k, value |-> val])

\* orders.set(k, val): the entry of an existing key keeps its place.
MapSet(tbl, k, val) ==
    IF MapHas(tbl, k)
    THEN [i \in 1..Len(tbl) |->
            IF tbl[i].key = k THEN [key |-> k, value |-> val] ELSE tbl[i]]
    ELSE Append(tbl, [key |-> k, value |-> val])

\* Array.from(orders.values())
MapValues(tbl) == [i \in 1..Len(tbl) |-> tbl[i].value]

MapKeys(tbl) == {tbl[i].key : i \in 1..Len(tbl)}

(***************************************************************************)
(* Responses.  Every body has the same fields; a route fills in its own.   *)
(***************************************************************************)
NoBody ==
    [error |-> "", status |-> "", orderId |-> Absent, eventType |-> Absent,
     processedStatus |-> Absent, timestamp |-> -1, order |-> <<>>,
     list |-> <<>>, totalOrders |-> -1]

\* res.json(order): JSON.stringify drops undefined and function properties.
RecordJSON(rec) == [f \in DOMAIN rec |-> ToJSON(rec[f])]

(***************************************************************************)
(* POST /api/webhook/paypal                                                *)
(***************************************************************************)
verifyPayPalWebhook(req) == TRUE

\* The order id with the capture id looked at first.
ExtractOrderIdCaptureFirst(resource, t) ==
    IF Truthy(resource.capture_id) THEN resource.capture_id
    ELSE IF Truthy(resource.order_id) THEN resource.order_id
    ELSE IF Truthy(resource.id) THEN resource.id
    ELSE Str("unknown_" \o ToString(t))

\* The order id, by truthiness of each candidate in turn.
ExtractOrderId(resource, t) ==
    IF Truthy(resource.order_id) THEN resource.order_id
    ELSE IF Truthy(resource.capture_id) THEN resource.capture_id
    ELSE IF Truthy(resource.id) THEN resource.id
    ELSE Str("unknown_" \o ToString(t))

statusMap ==
    [e \in KnownEventTypes |->
        CASE e = "PAYMENT.CAPTURE.COMPLETED" -> "COMPLETED"
          [] e = "PAYMENT.CAPTURE.PENDING" -> "PENDING"
          [] e = "PAYMENT.CAPTURE.DENIED" -> "DENIED"
          [] e = "CHECKOUT.ORDER.APPROVED" -> "APPROVED"
          [] e = "CHECKOUT.ORDER.COMPLETED" -> "COMPLETED"]

\* What every object literal inherits from Object.prototype.
ObjectPrototypeProps ==
    {"constructor", "toString", "toLocaleString", "valueOf",
     "hasOwnProperty", "isPrototypeOf", "propertyIsEnumerable"}

\* statusMap[key]: an own property, else one found on the prototype chain,
\* else undefined.
StatusMapGet(key) ==
    IF key \in DOMAIN statusMap THEN Str(statusMap[key])
    ELSE IF key \in ObjectPrototypeProps THEN Fn(key)
    ELSE Undefined

\* statusMap[eventType] || 'UNKNOWN', for an eventType that converts to a
\* property key.
NormalizeStatus(eventType) ==
    LET hit == StatusMapGet(JSToString(eventType))
    IN  IF Truthy(hit) THEN hit ELSE Str("UNKNOWN")

\* The object handed to orders.set.
OrderRecord(webhookData, resource, orderId, status) ==
    [id |-> orderId,
     status |-> status,
     eventType |-> webhookData.event_type,
     amount |-> resource.amount,
     timestamp |-> webhookData.create_time,
     payer |-> IF Truthy(resource.payer) THEN resource.payer
               ELSE IF webhookData.has_resource
                    THEN webhookData.resource.payer ELSE Undefined,
     items |-> resource.items,
     captureId |-> resource.id,
     orderId |-> resource.order_id]

\* The four console.log lines after orders.set return only if every
\* interpolated value converts to a string.
LogsPrint(resource, orderId, status) ==
    /\ CanStringify(orderId)
    /\ CanStringify(status)
    /\ CanStringify(AmountValue(resource.amount))
    /\ CanStringify(AmountCurrency(resource.amount))
    /\ CanStringify(resource.id)
    /\ CanStringify(resource.order_id)

\* No record.
NoRecord ==
    [id |-> Undefined, status |-> Undefined, eventType |-> Undefined,
     amount |-> Undefined, timestamp |-> Undefined, payer |-> Undefined,
     items |-> Undefined, captureId |-> Undefined, orderId |-> Undefined]

\* catch (error): the table is whatever the try block left.
Caught(tbl, stored, key, rec) ==
    [code |-> 500,
     body |-> [NoBody EXCEPT !.error = "Internal server error"],
     orders |-> tbl, stored |-> stored, key |-> key, record |-> rec]

\* The route handler on a request whose body is webhookData (hasBody) or
\* undefined, with the table tbl, at time t.
PostWebhookOutcome(req, hasBody, webhookData, tbl, t) ==
    IF ~(verifyPayPalWebhook(req) /\ hasBody)
    THEN Caught(tbl, FALSE, Undefined, NoRecord)
    ELSE
      LET eventType == webhookData.event_type
          resource == IF webhookData.has_resource
                      THEN webhookData.resource ELSE EmptyResource
          orderId == ExtractOrderId(resource, t)
      IN  IF ~CanStringify(eventType)
          THEN Caught(tbl, FALSE, Undefined, NoRecord)
          ELSE
            LET status == NormalizeStatus(eventType)
                rec == OrderRecord(webhookData, resource, orderId, status)
                set == MapSet(tbl, orderId, rec)
            IN  IF ~LogsPrint(resource, orderId, status)
                THEN Caught(set, TRUE, orderId, rec)
                ELSE [code |-> 200,
                      body |-> [NoBody EXCEPT
                                  !.status = "success",
                                  !.orderId = ToJSON(orderId),
                                  !.eventType = ToJSON(eventType),
                                  !.processedStatus = ToJSON(status),
                                  !.timestamp = t],
                      orders |-> set, stored |-> TRUE, key |-> orderId,
                      record |-> rec]

(***************************************************************************)
(* State.                                                                  *)
(*   orders   the Map                                                      *)
(*   pending  the requests in flight                                       *)
(*   now      Date.now()                                                   *)
(*   arrived  the number of requests received                              *)
(*   last     the request answered last: its response, the time, whether   *)
(*            and under which key it stored a record, the record that key  *)
(*            held before, and the requests in flight beside it            *)
(*   latest   for each order id a webhook has stored, the record and the   *)
(*            response of the most recent such webhook (history)           *)
(***************************************************************************)
NoRequest == Request("none", "none", EmptyBody, "")

Answer(req, code, body, stored, key, others) ==
    [req |-> req, code |-> code, body |-> body, stored |-> stored,
     key |-> key, others |-> others, at |-> now,
     prior |-> IF stored /\ MapHas(orders, key)
               THEN <<MapGet(orders, key)>> ELSE <<>>]

Init ==
    /\ orders = <<>>
    /\ pending = {}
    /\ now = 0
    /\ arrived = 0
    /\ last = [req |-> NoRequest, code |-> 0, body |-> NoBody,
               stored |-> FALSE, key |-> Undefined, others |-> {}, at |-> 0,
               prior |-> <<>>]
    /\ latest = <<>>

\* A request reaches the server.
Arrive(req, max) ==
    /\ arrived < max
    /\ Cardinality(pending) < MaxInFlight
    /\ req \notin pending
    /\ pending' = pending \cup {req}
    /\ arrived' = arrived + 1
    /\ UNCHANGED <<orders, now, last, latest>>

\* A millisecond passes.
Tick ==
    /\ now < MaxClock
    /\ now' = now + 1
    /\ UNCHANGED <<orders, pending, arrived, last, latest>>

\* express.json() cannot parse the body: the error goes to Express's default
\* error handler and the route handler never runs.
JsonBodyRejected(req) ==
    /\ req \in pending
    /\ req.raw = "invalid"
    /\ pending' = pending \ {req}
    /\ last' = Answer(req, 400, [NoBody EXCEPT !.error = "SyntaxError"],
                      FALSE, Undefined, pending')
    /\ UNCHANGED <<orders, now, arrived, latest>>

\* A handler whose working variables are shared between the requests in
\* flight: the record it stores may be the one built for another of them.
PostWebhookTorn(req) ==
    /\ req \in pending
    /\ req.route = "POST /api/webhook/paypal"
    /\ req.raw = "json"
    /\ \E other \in pending :
         /\ other.route = "POST /api/webhook/paypal"
         /\ other.raw = "json"
         /\ LET out == PostWebhookOutcome(req, TRUE, req.body, orders, now)
                mix == PostWebhookOutcome(other, TRUE, other.body, orders,
                                          now)
            IN  /\ orders' = IF out.stored /\ mix.stored
                             THEN MapSet(orders, out.key, mix.record)
                             ELSE out.orders
                /\ pending' = pending \ {req}
                /\ last' = Answer(req, out.code, out.body, out.stored,
                                  out.key, pending')
                /\ latest' = IF out.stored
                             THEN (out.key :> [record |-> out.record,
                                               code |-> out.code,
                                               body |-> out.body]) @@ latest
                             ELSE latest
    /\ UNCHANGED <<now, arrived>>

\* app.post('/api/webhook/paypal', ...).  A request without a JSON body has
\* req.body = {} under Express 4 and req.body undefined under Express 5.
PostWebhook(req) ==
    /\ req \in pending
    /\ req.route = "POST /api/webhook/paypal"
    /\ req.raw # "invalid"
    /\ \E hasBody \in IF req.raw = "none" THEN BOOLEAN ELSE {TRUE} :
         LET out == PostWebhookOutcome(req, hasBody, req.body, orders, now)
         IN  /\ orders' = out.orders
             /\ pending' = pending \ {req}
             /\ last' = Answer(req, out.code, out.body, out.stored, out.key,
                               pending')
             /\ latest' = IF out.stored
                          THEN (out.key :> [record |-> out.record,
                                            code |-> out.code,
                                            body |-> out.body]) @@ latest
                          ELSE latest
    /\ UNCHANGED <<now, arrived>>

\* A lookup that removes the entry it returns.
GetOrderConsuming(req) ==
    /\ req \in pending
    /\ req.route = "GET /api/orders/:orderId"
    /\ pending' = pending \ {req}
    /\ LET orderId == Str(req.param)
       IN  /\ last' =
                IF ~MapHas(orders, orderId)
                THEN Answer(req, 404,
                            [NoBody EXCEPT !.error = "Order not found"],
                            FALSE, Undefined, pending')
                ELSE Answer(req, 200,
                            [NoBody EXCEPT
                               !.order =
                                  <<RecordJSON(MapGet(orders, orderId))>>],
                            FALSE, Undefined, pending')
           /\ orders' = SelectSeq(orders, LAMBDA e : e.key # orderId)
    /\ UNCHANGED <<now, arrived, latest>>

\* app.get('/api/orders/:orderId', ...)
GetOrder(req) ==
    /\ req \in pending
    /\ req.route = "GET /api/orders/:orderId"
    /\ pending' = pending \ {req}
    /\ LET orderId == Str(req.param)
       IN  last' =
             IF ~MapHas(orders, orderId)
             THEN Answer(req, 404,
                         [NoBody EXCEPT !.error = "Order not found"],
                         FALSE, Undefined, pending')
             ELSE Answer(req, 200,
                         [NoBody EXCEPT
                            !.order = <<RecordJSON(MapGet(orders, orderId))>>],
                         FALSE, Undefined, pending')
    /\ UNCHANGED <<orders, now, arrived, latest>>

\* app.get('/api/orders', ...)
GetAllOrders(req) ==
    /\ req \in pending
    /\ req.route = "GET /api/orders"
    /\ pending' = pending \ {req}
    /\ last' = Answer(req, 200,
                      [NoBody EXCEPT
                         !.list = [i \in 1..Len(orders) |->
                                     RecordJSON(MapValues(orders)[i])]],
                      FALSE, Undefined, pending')
    /\ UNCHANGED <<orders, now, arrived, latest>>

\* app.get('/api/verify-credentials', ...)
VerifyCredentials(req) ==
    /\ req \in pending
    /\ req.route = "GET /api/verify-credentials"
    /\ pending' = pending \ {req}
    /\ last' = Answer(req, 200, NoBody, FALSE, Undefined, pending')
    /\ UNCHANGED <<orders, now, arrived, latest>>

\* app.get('/api/health', ...)
Health(req) ==
    /\ req \in pending
    /\ req.route = "GET /api/health"
    /\ pending' = pending \ {req}
    /\ last' = Answer(req, 200,
                      [NoBody EXCEPT !.status = "healthy", !.timestamp = now,
                                     !.totalOrders = Len(orders)],
                      FALSE, Undefined, pending')
    /\ UNCHANGED <<orders, now, arrived, latest>>

\* app.get('/', ...)
Root(req) ==
    /\ req \in pending
    /\ req.route = "GET /"
    /\ pending' = pending \ {req}
    /\ last' = Answer(req, 200, NoBody, FALSE, Undefined, pending')
    /\ UNCHANGED <<orders, now, arrived, latest>>

Next ==
    \/ \E req \in Requests : Arrive(req, MaxRequests)
    \/ Tick
    \/ \E req \in pending : JsonBodyRejected(req)
    \/ \E req \in pending : PostWebhook(req)
    \/ \E req \in pending : GetOrder(req)
    \/ \E req \in pending : GetAllOrders(req)
    \/ \E req \in pending : VerifyCredentials(req)
    \/ \E req \in pending : Health(req)
    \/ \E req \in pending : Root(req)

Spec == Init /\ [][Next]_vars

\* Webhooks and order queries only.
NextDeep ==
    \/ \E req \in DeepRequests : Arrive(req, MaxDeep)
    \/ Tick
    \/ \E req \in pending : PostWebhook(req)
    \/ \E req \in pending : GetOrder(req)
    \/ \E req \in pending : GetAllOrders(req)

SpecDeep == Init /\ [][NextDeep]_vars

(***************************************************************************)
(* Properties.                                                             *)
(***************************************************************************)
WebhookRoute == "POST /api/webhook/paypal"

\* The resource a webhook body carries, {} when it carries none.
ResourceOf(body) ==
    IF body.has_resource THEN body.resource ELSE EmptyResource

\* The lookup table of the specification: five event types, one default.
TableStatus(e) ==
    IF e = Str("PAYMENT.CAPTURE.COMPLETED") THEN Str("COMPLETED")
    ELSE IF e = Str("PAYMENT.CAPTURE.PENDING") THEN Str("PENDING")
    ELSE IF e = Str("PAYMENT.CAPTURE.DENIED") THEN Str("DENIED")
    ELSE IF e = Str("CHECKOUT.ORDER.APPROVED") THEN Str("APPROVED")
    ELSE IF e = Str("CHECKOUT.ORDER.COMPLETED") THEN Str("COMPLETED")
    ELSE Str("UNKNOWN")

\* C1: after a webhook answered 200, the record stored under its key has the
\* status the lookup table gives its event type: the mapped value for the
\* five known types and the string UNKNOWN for every other event type, a
\* missing one and 'constructor' included.
C1_StatusIsTableValue ==
    (last.req.route = WebhookRoute /\ last.code = 200)
        => MapGet(orders, last.key).status
               = TableStatus(last.req.body.event_type)

\* C2: the key a webhook stores under is the first of these the payload
\* contains: the related order id, the first capture's id, resource.id; and
\* "unknown_" followed by the time in milliseconds when it contains none.
C2_KeyByPresence ==
    (last.req.route = WebhookRoute /\ last.stored)
        => LET r == ResourceOf(last.req.body)
           IN  last.key =
                 IF r.order_id # Undefined THEN r.order_id
                 ELSE IF r.capture_id # Undefined THEN r.capture_id
                 ELSE IF r.id # Undefined THEN r.id
                 ELSE Str("unknown_" \o ToString(last.at))

\* A candidate id the handler uses: present, and neither the empty string
\* nor zero.
Usable(x) == x \notin {Undefined, Str(""), Num("0")}

\* C2, amended: the key is the first usable one of the related order id, the
\* first capture's id and resource.id, in that order, and "unknown_" followed
\* by the time in milliseconds when none is usable; the record is stored
\* under that key.
C2_KeyByTruthiness ==
    (last.req.route = WebhookRoute /\ last.stored)
        => LET r == ResourceOf(last.req.body)
               k == IF Usable(r.order_id) THEN r.order_id
                    ELSE IF Usable(r.capture_id) THEN r.capture_id
                    ELSE IF Usable(r.id) THEN r.id
                    ELSE Str("unknown_" \o ToString(last.at))
           IN  /\ last.key = k
               /\ MapHas(orders, k)

\* A webhook whose related order id is present but empty was stored under
\* its capture id.
C2_Witness ==
    /\ last.req.route = WebhookRoute
    /\ last.stored
    /\ last.req.body.has_resource
    /\ last.req.body.resource.order_id = Str("")
    /\ last.key = Str("B")
    /\ MapHas(orders, Str("B"))

\* A step in which a request is answered.
Answered == arrived' = arrived /\ pending' # pending

\* A parsed webhook body that is not a well-formed event: it has no resource,
\* or a value in it cannot be converted to a string.
Malformed(req) ==
    /\ req.route = WebhookRoute
    /\ req.raw = "json"
    /\ \/ ~req.body.has_resource
       \/ req.body.event_type = Unprintable
       \/ req.body.resource.amount = AmountUnprintable

\* C3: a webhook with a malformed body is answered 500 with the generic
\* error body and leaves the order table exactly as it was.
C3_MalformedRejectedTableUnchanged ==
    [][(Answered /\ Malformed(last'.req))
          => /\ last'.code = 500
             /\ last'.body.error = "Internal server error"
             /\ orders' = orders]_vars

\* C4: every webhook request is answered 200 or 500, never 4xx, a request
\* whose body does not parse included.
C4_WebhookNever4xx ==
    (last.req.route = WebhookRoute) => last.code \in {200, 500}

\* C5: GET /api/orders/x answers 404 "Order not found" while no webhook with
\* resolved id x has stored a record, and 200 with the record of the most
\* recent such webhook afterwards, whatever the type of x.
C5_QueryFollowsIngest ==
    (last.req.route = "GET /api/orders/:orderId")
        => LET hits == {x \in DOMAIN latest : JSToString(x) = last.req.param}
           IN  IF hits = {}
               THEN /\ last.code = 404
                    /\ last.body.error = "Order not found"
               ELSE /\ last.code = 200
                    /\ \E x \in hits :
                         last.body.order = <<RecordJSON(latest[x].record)>>

\* C6: after a webhook stored a record under a key, the table holds exactly
\* one entry under that key and every field of its record comes from that
\* webhook alone: a field the webhook does not supply is undefined, whatever
\* the entry held before.
C6_LastWriteReplaces ==
    (last.req.route = WebhookRoute /\ last.stored)
        => LET b == last.req.body
               r == ResourceOf(b)
               rec == MapGet(orders, last.key)
           IN  /\ Cardinality({i \in 1..Len(orders) :
                                 orders[i].key = last.key}) = 1
               /\ rec.id = last.key
               /\ rec.status = TableStatus(b.event_type)
               /\ rec.eventType = b.event_type
               /\ rec.amount = r.amount
               /\ rec.timestamp = b.create_time
               /\ rec.payer = r.payer
               /\ rec.items = r.items
               /\ rec.captureId = r.id
               /\ rec.orderId = r.order_id

\* A webhook without amount, payer, items and create_time overwrote a record
\* that had them.
C6_Witness ==
    /\ last.req.route = WebhookRoute
    /\ last.stored
    /\ last.prior # <<>>
    /\ last.prior[1].amount = AmountOK
    /\ last.prior[1].payer # Undefined
    /\ last.prior[1].eventType # last.req.body.event_type
    /\ MapGet(orders, last.key).amount = Undefined
    /\ MapGet(orders, last.key).payer = Undefined

\* C7: the table holds one entry for each distinct order id a webhook has
\* stored so far, none is ever removed, and GET /api/orders returns exactly
\* these records.
C7_ListHoldsEveryIngestedId ==
    /\ MapKeys(orders) = DOMAIN latest
    /\ Len(orders) = Cardinality(DOMAIN latest)
    /\ (last.req.route = "GET /api/orders")
          => /\ last.code = 200
             /\ Len(last.body.list) = Cardinality(DOMAIN latest)
             /\ \A k \in DOMAIN latest :
                   \E i \in 1..Len(last.body.list) :
                      last.body.list[i] = RecordJSON(latest[k].record)

\* GET /api/orders returned two records after webhooks for two distinct ids.
C7_Witness ==
    /\ last.req.route = "GET /api/orders"
    /\ Cardinality(DOMAIN latest) = 2
    /\ Len(last.body.list) = 2
    /\ last.body.list[1].id # last.body.list[2].id

\* C8: answering a request of any GET route leaves the order table as it is,
\* on a hit and on a miss; the table changes only in a step in which a
\* webhook reaches orders.set.
C8_OnlyWebhookWrites ==
    [][/\ (Answered /\ last'.req.route # WebhookRoute) => orders' = orders
       /\ (orders' # orders)
             => (Answered /\ last'.req.route = WebhookRoute /\ last'.stored)
      ]_vars

\* GET /api/orders/:orderId found a record, and the table still holds it.
C8_Witness ==
    /\ last.req.route = "GET /api/orders/:orderId"
    /\ last.code = 200
    /\ MapHas(orders, Str(last.req.param))
    /\ last.body.order = <<RecordJSON(MapGet(orders, Str(last.req.param)))>>

\* The entries a single webhook can write: the key and the whole record of
\* one body at one time.
WholeEntries ==
    {[key |-> ExtractOrderId(ResourceOf(b), t),
      value |-> OrderRecord(b, ResourceOf(b),
                            ExtractOrderId(ResourceOf(b), t),
                            NormalizeStatus(b.event_type))] :
        b \in {x \in Bodies : CanStringify(x.event_type)}, t \in 0..MaxClock}

\* C9: with requests in flight together, the table is what handling them one
\* after another, in the order they were answered, leaves: every entry is the
\* whole record of one webhook, the entry of a key is the record of the
\* webhook for that key answered last, and GET /api/orders/:orderId returns
\* a whole record.
C9_HandlersAtomic ==
    /\ \A i \in 1..Len(orders) : orders[i] \in WholeEntries
    /\ \A k \in DOMAIN latest :
          MapHas(orders, k) /\ MapGet(orders, k) = latest[k].record
    /\ (last.req.route = WebhookRoute /\ last.stored)
          => MapGet(orders, last.key)
                = OrderRecord(last.req.body, ResourceOf(last.req.body),
                              last.key,
                              NormalizeStatus(last.req.body.event_type))
    /\ (last.req.route = "GET /api/orders/:orderId" /\ last.code = 200)
          => \E e \in WholeEntries :
                /\ e.key = Str(last.req.param)
                /\ last.body.order = <<RecordJSON(e.value)>>

\* A webhook replaced the record of an earlier one while a third webhook for
\* the same order id, with another body, was in flight.
C9_Witness ==
    /\ last.req.route = WebhookRoute
    /\ last.stored
    /\ last.key = Str("C")
    /\ last.prior # <<>>
    /\ last.prior[1] # MapGet(orders, Str("C"))
    /\ \E q \in last.others :
          /\ q.route = WebhookRoute
          /\ q.body # last.req.body
          /\ ExtractOrderId(ResourceOf(q.body), now) = Str("C")
    /\ MapGet(orders, Str("C")) = latest[Str("C")].record

\* C10: the record held under key k has id k, and the webhook that stored it
\* was answered 200 with orderId k, the record's eventType and, as
\* processedStatus, the record's status.
C10_EntryMatchesItsResponse ==
    \A i \in 1..Len(orders) :
       LET k == orders[i].key
           rec == orders[i].value
       IN  /\ rec.id = k
           /\ k \in DOMAIN latest
           /\ latest[k].code = 200
           /\ latest[k].body.orderId = ToJSON(k)
           /\ latest[k].body.eventType = ToJSON(rec.eventType)
           /\ latest[k].body.processedStatus = ToJSON(rec.status)

====
